---- MODULE Spec2Model ----
(***************************************************************************)
(* Errand planner page components: ErrandOS (src/index.tsx) and            *)
(* ErrandOptimizer (src/unnamed/part_000).                                 *)
(*                                                                         *)
(* Text is modelled as a sequence of tokens, each token standing for a     *)
(* fixed run of characters: the JSON punctuation, a quote, a blank, a      *)
(* digit, the literal null, a few words, the markdown fence ``` and the    *)
(* language tag json that may follow it.  The user's input text is a       *)
(* sequence of single characters.  JavaScript's null is the decoded JSON   *)
(* literal null, written JSNull.                                           *)
(***************************************************************************)
EXTENDS Integers, Sequences, FiniteSets, TLC

\* ------------------------------------------------------------ bounds
\* Longest response text enumerated token by token.
MaxTextLen == 3
\* Most generateContent calls outstanding at once.
MaxInFlight == 2
\* Longest input text a voice transcript may produce.
MaxInputLen == 4
\* Most grounding chunks in one response enumerated exhaustively.
MaxChunks == 2
\* Most successful non-reroute generations followed in the history scenario.
MaxGenerations == 6
\* requests the user submits before only rerouting (SpecResponses, SpecParser)
MaxRequests == 1

\* ------------------------------------------------------------ tokens
Quote == "\""
Blank == " "
\* The markdown fence: three backticks.
Fence == "<fence>"
JsonTag == "json"
Digits == {"1"}
JSNull == <<"null">>

\* ------------------------------------------------------------ String.prototype
\* s.indexOf(c): 0-based position of the first c, -1 when absent.
IndexOf(s, c) ==
  IF \E i \in 1..Len(s) : s[i] = c
  THEN (CHOOSE i \in 1..Len(s) : s[i] = c /\ \A j \in 1..(i - 1) : s[j] # c) - 1
  ELSE -1

\* s.lastIndexOf(c): 0-based position of the last c, -1 when absent.
LastIndexOf(s, c) ==
  IF \E i \in 1..Len(s) : s[i] = c
  THEN (CHOOSE i \in 1..Len(s) : s[i] = c /\ \A j \in (i + 1)..Len(s) : s[j] # c) - 1
  ELSE -1

Clamp(n, len) == IF n < 0 THEN 0 ELSE IF n > len THEN len ELSE n

\* s.substring(a, b): both ends clamped to [0, length], swapped when a > b.
Substring(s, a, b) ==
  LET ca == Clamp(a, Len(s))
      cb == Clamp(b, Len(s))
      lo == IF ca <= cb THEN ca ELSE cb
      hi == IF ca <= cb THEN cb ELSE ca
  IN SubSeq(s, lo + 1, hi)

\* s.trim(): leading and trailing white space removed.
RECURSIVE TrimLeft(_)
TrimLeft(s) == IF s # <<>> /\ Head(s) = Blank THEN TrimLeft(Tail(s)) ELSE s

RECURSIVE TrimRight(_)
TrimRight(s) ==
  IF s # <<>> /\ s[Len(s)] = Blank THEN TrimRight(SubSeq(s, 1, Len(s) - 1)) ELSE s

Trim(s) == TrimRight(TrimLeft(s))

\* text.replace(/```json/g, ''): every fence directly followed by the tag goes.
RECURSIVE ReplaceFenceJson(_)
ReplaceFenceJson(s) ==
  IF s = <<>> THEN <<>>
  ELSE IF Len(s) >= 2 /\ s[1] = Fence /\ s[2] = JsonTag
       THEN ReplaceFenceJson(SubSeq(s, 3, Len(s)))
       ELSE <<Head(s)>> \o ReplaceFenceJson(Tail(s))

\* text.replace(/```/g, ''): every remaining fence goes.
RECURSIVE ReplaceFence(_)
ReplaceFence(s) ==
  IF s = <<>> THEN <<>>
  ELSE IF Head(s) = Fence THEN ReplaceFence(Tail(s))
       ELSE <<Head(s)>> \o ReplaceFence(Tail(s))

\* ------------------------------------------------------------ JSON.parse
\* A decoded value is written in canonical form: its tokens without the
\* insignificant white space.  A parse step yields [ok, val, next].
ParseFail == [ok |-> FALSE, val |-> <<>>, next |-> 0]

RECURSIVE SkipWs(_, _)
SkipWs(s, i) == IF i <= Len(s) /\ s[i] = Blank THEN SkipWs(s, i + 1) ELSE i

\* A string: a quote, anything but a quote, a quote (no escapes modelled).
ParseString(s, i) ==
  IF i <= Len(s) /\ s[i] = Quote /\ \E j \in (i + 1)..Len(s) : s[j] = Quote
  THEN LET j == CHOOSE j \in (i + 1)..Len(s) :
                  s[j] = Quote /\ \A k \in (i + 1)..(j - 1) : s[k] # Quote
       IN [ok |-> TRUE, val |-> SubSeq(s, i, j), next |-> j + 1]
  ELSE ParseFail

RECURSIVE DigitsEnd(_, _)
DigitsEnd(s, i) == IF i <= Len(s) /\ s[i] \in Digits THEN DigitsEnd(s, i + 1) ELSE i

ParseNumber(s, i) ==
  [ok |-> TRUE, val |-> SubSeq(s, i, DigitsEnd(s, i) - 1), next |-> DigitsEnd(s, i)]

RECURSIVE ParseValue(_, _), ParseMembers(_, _, _), ParseElements(_, _, _)

\* value := object | array | string | number | null, after white space.
ParseValue(s, i) ==
  LET j == SkipWs(s, i) IN
  IF j > Len(s) THEN ParseFail
  ELSE IF s[j] = "{" THEN
         LET k == SkipWs(s, j + 1) IN
         IF k <= Len(s) /\ s[k] = "}"
         THEN [ok |-> TRUE, val |-> <<"{", "}">>, next |-> k + 1]
         ELSE ParseMembers(s, k, <<"{">>)
  ELSE IF s[j] = "[" THEN
         LET k == SkipWs(s, j + 1) IN
         IF k <= Len(s) /\ s[k] = "]"
         THEN [ok |-> TRUE, val |-> <<"[", "]">>, next |-> k + 1]
         ELSE ParseElements(s, k, <<"[">>)
  ELSE IF s[j] = Quote THEN ParseString(s, j)
  ELSE IF s[j] \in Digits THEN ParseNumber(s, j)
  ELSE IF s[j] = "null" THEN [ok |-> TRUE, val |-> JSNull, next |-> j + 1]
  ELSE ParseFail

\* members := string ':' value (',' members | '}')
ParseMembers(s, i, acc) ==
  LET key == ParseString(s, SkipWs(s, i)) IN
  IF ~key.ok THEN ParseFail
  ELSE LET c == SkipWs(s, key.next) IN
       IF c > Len(s) \/ s[c] # ":" THEN ParseFail
       ELSE LET v == ParseValue(s, c + 1) IN
            IF ~v.ok THEN ParseFail
            ELSE LET d == SkipWs(s, v.next)
                     sofar == acc \o key.val \o <<":">> \o v.val
                 IN IF d > Len(s) THEN ParseFail
                    ELSE IF s[d] = "," THEN ParseMembers(s, d + 1, sofar \o <<",">>)
                    ELSE IF s[d] = "}"
                         THEN [ok |-> TRUE, val |-> sofar \o <<"}">>, next |-> d + 1]
                         ELSE ParseFail

\* elements := value (',' elements | ']')
ParseElements(s, i, acc) ==
  LET v == ParseValue(s, i) IN
  IF ~v.ok THEN ParseFail
  ELSE LET d == SkipWs(s, v.next)
           sofar == acc \o v.val
       IN IF d > Len(s) THEN ParseFail
          ELSE IF s[d] = "," THEN ParseElements(s, d + 1, sofar \o <<",">>)
          ELSE IF s[d] = "]"
               THEN [ok |-> TRUE, val |-> sofar \o <<"]">>, next |-> d + 1]
               ELSE ParseFail

\* JSON.parse(s): the value, or a SyntaxError (ok = FALSE) when s is not
\* exactly one JSON value surrounded by white space.
JSONParse(s) ==
  LET r == ParseValue(s, 1) IN
  IF r.ok /\ SkipWs(s, r.next) > Len(s)
  THEN [ok |-> TRUE, val |-> r.val]
  ELSE [ok |-> FALSE, val |-> <<>>]

\* !v for a decoded value: null and the empty string are falsy.
Falsy(v) == v = JSNull \/ v = <<Quote, Quote>>

\* ------------------------------------------------------------ response parsing
\* response.text when the service gives no text at all.
UndefinedText == <<"<undefined>">>

\* extractJSON with the end of the object taken at the first "}"
extractJSONFirstClose(text) ==
  IF text = UndefinedText THEN JSNull
  ELSE LET cleanText == Trim(ReplaceFence(ReplaceFenceJson(text)))
           jsonStart == IndexOf(cleanText, "{")
           jsonEnd == IndexOf(cleanText, "}") + 1
       IN IF jsonStart = -1 \/ jsonEnd = 0 THEN JSNull
          ELSE LET parsed == JSONParse(Substring(cleanText, jsonStart, jsonEnd))
               IN IF parsed.ok THEN parsed.val ELSE JSNull

\* extractJSON of ErrandOS: the decoded value, or null.  Any exception
\* (text.replace on undefined, a SyntaxError of JSON.parse) yields null.
extractJSON(text) ==
  IF text = UndefinedText THEN JSNull
  ELSE LET cleanText == Trim(ReplaceFence(ReplaceFenceJson(text)))
           jsonStart == IndexOf(cleanText, "{")
           jsonEnd == LastIndexOf(cleanText, "}") + 1
       IN IF jsonStart = -1 \/ jsonEnd = 0 THEN JSNull
          ELSE LET parsed == JSONParse(Substring(cleanText, jsonStart, jsonEnd))
               IN IF parsed.ok THEN parsed.val ELSE JSNull

NoPlanDataOptimizer == "Critical: AI response contained no valid plan data."

\* The inline substring logic of ErrandOptimizer: [thrown, message, val].
inlineParse(responseText) ==
  LET text == IF responseText = UndefinedText THEN <<>> ELSE responseText
      jsonStart == IndexOf(text, "{")
      jsonEnd == LastIndexOf(text, "}") + 1
      jsonString == Substring(text, jsonStart, jsonEnd)
  IN IF jsonString = <<>>
     THEN [thrown |-> TRUE, message |-> NoPlanDataOptimizer, val |-> <<>>]
     ELSE LET parsed == JSONParse(jsonString)
          IN IF parsed.ok THEN [thrown |-> FALSE, message |-> "", val |-> parsed.val]
             ELSE [thrown |-> TRUE, message |-> "SyntaxError", val |-> <<>>]

\* ------------------------------------------------------------ citations
\* A metadata field is a JavaScript value <<tag, text>>; tag is "undef"
\* or "str".
JSUndef == <<"undef", "">>
Truthy(v) == v[1] # "undef" /\ v[2] # ""
\* String(v)
JSString(v) == IF v[1] = "undef" THEN "undefined" ELSE v[2]

\* chunk?.maps?.uri of a chunk [maps, title, uri]
MapsUri(chunk) == IF chunk.maps THEN chunk.uri ELSE JSUndef
MapsTitle(chunk) == IF chunk.maps THEN chunk.title ELSE JSUndef

\* ErrandOS: a link for every chunk with a uri; the title defaults.
LinkOfOS(chunk) ==
  IF Truthy(MapsUri(chunk))
  THEN <<[title |-> IF Truthy(chunk.title) THEN JSString(chunk.title) ELSE "Map Location",
          uri |-> JSString(chunk.uri)]>>
  ELSE <<>>

\* ErrandOptimizer: a link only for a chunk with a title and a uri.
LinkOfOptimizer(chunk) ==
  IF Truthy(MapsTitle(chunk)) /\ Truthy(MapsUri(chunk))
  THEN <<[title |-> JSString(chunk.title), uri |-> JSString(chunk.uri)]>>
  ELSE <<>>

LinkOf(comp, chunk) ==
  IF comp = "ErrandOS" THEN LinkOfOS(chunk) ELSE LinkOfOptimizer(chunk)

RECURSIVE CollectSources(_, _)
CollectSources(comp, items) ==
  IF items = <<>> THEN <<>>
  ELSE LinkOf(comp, Head(items)) \o CollectSources(comp, Tail(items))

\* sources after the forEach over groundingChunks [isArray, items]
ExtractSources(comp, chunks) ==
  IF chunks.isArray THEN CollectSources(comp, chunks.items) ELSE <<>>

\* ------------------------------------------------------------ messages
NoError == "null"
NoPlanDataOS ==
  "Critical: AI response contained no valid plan data. Please try again with more specific details."
InterruptedOS == "Spatial processing interrupted."
InterruptedOptimizer ==
  "Spatial processing interrupted. Verify errand descriptions and try again."
VoiceErrorMsg == "Voice recognition error. Check microphone settings."
MicUnavailableMsg == "Microphone access is unavailable."
LocationDeniedMsg == "Location access denied. Routing from default hub (San Francisco)."

\* a catch block that shows the thrown message as it is
CatchMessageRaw(comp, message) == message

\* The catch block: the message shown for a thrown error with this message.
CatchMessage(comp, message) ==
  IF comp = "ErrandOS"
  THEN IF message # "" THEN message ELSE InterruptedOS
  ELSE InterruptedOptimizer

\* What the code after the await makes of a response
\* [ok, message, text, chunks]: [thrown, message, plan, sources].
Outcome(comp, resp) ==
  IF ~resp.ok
  THEN [thrown |-> TRUE, message |-> resp.message, plan |-> <<>>, sources |-> <<>>]
  ELSE IF comp = "ErrandOS"
  THEN LET parsedPlan == extractJSON(resp.text) IN
       IF Falsy(parsedPlan)
       THEN [thrown |-> TRUE, message |-> NoPlanDataOS, plan |-> <<>>, sources |-> <<>>]
       ELSE [thrown |-> FALSE, message |-> "", plan |-> parsedPlan,
             sources |-> ExtractSources(comp, resp.chunks)]
  ELSE LET p == inlineParse(resp.text) IN
       IF p.thrown
       THEN [thrown |-> TRUE, message |-> p.message, plan |-> <<>>, sources |-> <<>>]
       ELSE [thrown |-> FALSE, message |-> "", plan |-> p.val,
             sources |-> ExtractSources(comp, resp.chunks)]

\* ------------------------------------------------------------ state
VARIABLES
  component,      \* which page component runs: "ErrandOS" or "ErrandOptimizer"
  recognizer,     \* recognitionRef.current: "absent", "idle", "active" (capturing),
                  \* "stopping" (stop() called, a result may still come) or
                  \* "ending" (result or error delivered, the end event pending)
  geolocation,    \* getCurrentPosition: "absent", "pending" or "done"
  input, isListening, isLoading, plan, groundingLinks,
  location,       \* <<>> for null, else <<lat, lng>> in ten-thousandths of a degree
  locationName, error, history,
  inflight        \* the generateContent calls awaited, each with what its closure holds

vars == <<component, recognizer, geolocation, input, isListening, isLoading, plan,
          groundingLinks, location, locationName, error, history, inflight>>

Components == {"ErrandOS", "ErrandOptimizer"}
HistoryCap == 5
FallbackLat == 377749
FallbackLng == -1224194
FallbackLocation == <<FallbackLat, FallbackLng>>

InitialLocationName(comp) ==
  [kind |-> "text",
   text |-> IF comp = "ErrandOS" THEN "Locating..." ELSE "Detecting location...",
   lat |-> 0, lng |-> 0]

\* The state after the first render and the mount effect, on a platform
\* with or without speech recognition and geolocation.
InitOn(speech, geo) ==
  /\ component \in Components
  /\ recognizer \in speech
  /\ geolocation \in geo
  /\ input = <<>>
  /\ isListening = FALSE
  /\ isLoading = FALSE
  /\ plan = JSNull
  /\ groundingLinks = <<>>
  /\ location = <<>>
  /\ locationName = InitialLocationName(component)
  /\ error = NoError
  /\ history = <<>>
  /\ inflight = <<>>

\* ------------------------------------------------------------ input collector
\* onChange of the textarea
EditInput(v) ==
  /\ input' = v
  /\ UNCHANGED <<component, recognizer, geolocation, isListening, isLoading, plan,
                 groundingLinks, location, locationName, error, history, inflight>>

\* onClick of a history entry: setInput(h)
RecallHistory(i) ==
  /\ i \in 1..Len(history)
  /\ input' = history[i]
  /\ UNCHANGED <<component, recognizer, geolocation, isListening, isLoading, plan,
                 groundingLinks, location, locationName, error, history, inflight>>

\* a toggle that calls start() whatever the voice state is
ToggleListeningAlwaysStarts(startThrows) ==
  /\ IF recognizer = "absent"
     THEN /\ error' = NoError
          /\ isListening' = TRUE
          /\ recognizer' = recognizer
     ELSE IF startThrows \/ recognizer \in {"stopping", "ending"}
     THEN /\ error' = MicUnavailableMsg
          /\ isListening' = isListening
          /\ recognizer' = recognizer
     ELSE /\ error' = NoError
          /\ isListening' = TRUE
          /\ recognizer' = "active"
  /\ UNCHANGED <<component, geolocation, input, isLoading, plan, groundingLinks,
                 location, locationName, history, inflight>>

\* toggleListening; startThrows: whether recognizer.start() raises for a
\* reason of the platform.  start() also raises (InvalidStateError) while
\* the recognizer has not ended its previous capture.
ToggleListening(startThrows) ==
  /\ IF isListening
     THEN /\ recognizer' = IF recognizer = "active" THEN "stopping" ELSE recognizer
          /\ isListening' = FALSE
          /\ error' = error
     ELSE IF recognizer = "absent"
     THEN /\ error' = NoError
          /\ isListening' = TRUE
          /\ recognizer' = recognizer
     ELSE IF startThrows \/ recognizer # "idle"
     THEN /\ error' = MicUnavailableMsg
          /\ isListening' = isListening
          /\ recognizer' = recognizer
     ELSE /\ error' = NoError
          /\ isListening' = TRUE
          /\ recognizer' = "active"
  /\ UNCHANGED <<component, geolocation, input, isLoading, plan, groundingLinks,
                 location, locationName, history, inflight>>

\* a result handler that replaces the text by the transcript
JoinTranscriptReplaces(prev, transcript) == transcript

\* `${prev}, ${transcript}` when prev is non-empty, else transcript
JoinTranscript(prev, transcript) ==
  IF prev # <<>> THEN prev \o <<",", " ">> \o transcript ELSE transcript

\* recognizer.onresult
OnResult(transcript) ==
  /\ recognizer \in {"active", "stopping"}
  /\ Len(JoinTranscript(input, transcript)) <= MaxInputLen
  /\ input' = JoinTranscript(input, transcript)
  /\ isListening' = FALSE
  /\ recognizer' = "ending"
  /\ UNCHANGED <<component, geolocation, isLoading, plan, groundingLinks, location,
                 locationName, error, history, inflight>>

\* recognizer.onerror
OnError ==
  /\ recognizer \in {"active", "stopping"}
  /\ isListening' = FALSE
  /\ error' = VoiceErrorMsg
  /\ recognizer' = "ending"
  /\ UNCHANGED <<component, geolocation, input, isLoading, plan, groundingLinks,
                 location, locationName, history, inflight>>

\* The recognizer ends its capture; the components set no onend handler.
OnEnd ==
  /\ recognizer \in {"stopping", "ending"}
  /\ recognizer' = "idle"
  /\ UNCHANGED <<component, geolocation, input, isListening, isLoading, plan,
                 groundingLinks, location, locationName, error, history, inflight>>

\* n.toFixed(3) of a value held in ten-thousandths: thousandths, rounded.
ToFixed3(n) == IF n >= 0 THEN (n + 5) \div 10 ELSE -((5 - n) \div 10)

\* getCurrentPosition success callback
GeoSuccess(coords) ==
  /\ geolocation = "pending"
  /\ geolocation' = "done"
  /\ location' = coords
  /\ locationName' = [kind |-> "coords", text |-> "",
                      lat |-> ToFixed3(coords[1]), lng |-> ToFixed3(coords[2])]
  /\ UNCHANGED <<component, recognizer, input, isListening, isLoading, plan,
                 groundingLinks, error, history, inflight>>

\* an error callback that stores no location
GeoErrorKeepsLocation ==
  /\ geolocation = "pending"
  /\ geolocation' = "done"
  /\ error' = IF component = "ErrandOptimizer" THEN LocationDeniedMsg ELSE error
  /\ locationName' = [kind |-> "text", text |-> "San Francisco, CA", lat |-> 0, lng |-> 0]
  /\ UNCHANGED <<component, recognizer, input, isListening, isLoading, plan,
                 groundingLinks, location, history, inflight>>

\* getCurrentPosition error callback
GeoError ==
  /\ geolocation = "pending"
  /\ geolocation' = "done"
  /\ error' = IF component = "ErrandOptimizer" THEN LocationDeniedMsg ELSE error
  /\ location' = FallbackLocation
  /\ locationName' = [kind |-> "text", text |-> "San Francisco, CA", lat |-> 0, lng |-> 0]
  /\ UNCHANGED <<component, recognizer, input, isListening, isLoading, plan,
                 groundingLinks, history, inflight>>

\* ------------------------------------------------------------ service responses
\* A response is [ok, message, text, chunks]: a rejection with a message,
\* or a text with the groundingChunks field [isArray, items].
NoChunks == [isArray |-> FALSE, items |-> <<>>]
Chunk(maps, title, uri) == [maps |-> maps, title |-> title, uri |-> uri]
Str(text) == <<"str", text>>
ChunkList(items) == [isArray |-> TRUE, items |-> items]
OneChunk == ChunkList(<<Chunk(TRUE, Str("Cafe"), Str("u1"))>>)

ServiceFailure(message) ==
  [ok |-> FALSE, message |-> message, text |-> UndefinedText, chunks |-> NoChunks]
Response(text, chunks) ==
  [ok |-> TRUE, message |-> "", text |-> text, chunks |-> chunks]
\* the promise of a call the service has not answered yet
Pending == [ok |-> FALSE, message |-> "<pending>", text |-> UndefinedText, chunks |-> NoChunks]

\* ------------------------------------------------------------ plan state controller
\* the guard without the trim
GuardReturnsEmptyOnly(isReroute) == input = <<>> /\ ~isReroute

\* generatePlan without its guard
GuardNeverReturns(isReroute) == FALSE

\* !input.trim() && !isReroute
GuardReturns(isReroute) == Trim(input) = <<>> /\ ~isReroute

RemoveAt(s, i) == SubSeq(s, 1, i - 1) \o SubSeq(s, i + 1, Len(s))

\* [input, ...prev].slice(0, 5)
Slice0(s, n) == SubSeq(s, 1, IF Len(s) < n THEN Len(s) ELSE n)
\* the push without the slice, and the push at the wrong end
PushHistoryUncapped(text, prev) == <<text>> \o prev
PushHistoryAtEnd(text, prev) == Slice0(prev \o <<text>>, HistoryCap)
PushHistory(text, prev) == Slice0(<<text>> \o prev, HistoryCap)

\* generatePlan up to its await: the guard, the busy flag, the request sent.
\* The closure keeps input, isReroute and location for the code after the await.
\* `${n}` of a coordinate held in ten-thousandths: sign, whole part and
\* four decimals of its decimal form, and the number such a text denotes.
NumberText(n) ==
  [negative |-> n < 0,
   whole |-> (IF n < 0 THEN -n ELSE n) \div 10000,
   fraction |-> (IF n < 0 THEN -n ELSE n) % 10000]
NumberOfText(t) == (IF t.negative THEN -1 ELSE 1) * (t.whole * 10000 + t.fraction)

\* Origin Coords: ${location?.lat}, ${location?.lng} of the prompt
PromptCoords(loc) ==
  IF loc = <<>> THEN <<UndefinedText, UndefinedText>>
  ELSE <<NumberText(loc[1]), NumberText(loc[2])>>

\* retrievalConfig.latLng: location?.lat || 37.7749, location?.lng || -122.4194
\* (undefined and 0 are falsy)
LatLngHint(loc) ==
  [latitude |-> IF loc = <<>> \/ loc[1] = 0 THEN FallbackLat ELSE loc[1],
   longitude |-> IF loc = <<>> \/ loc[2] = 0 THEN FallbackLng ELSE loc[2]]

GeneratePlan(isReroute) ==
  IF GuardReturns(isReroute) THEN UNCHANGED vars
  ELSE /\ Len(inflight) < MaxInFlight
       /\ isLoading' = TRUE
       /\ error' = NoError
       /\ inflight' = Append(inflight,
            [input |-> input, isReroute |-> isReroute, location |-> location,
             origin |-> PromptCoords(location), latLng |-> LatLngHint(location),
             response |-> Pending])
       /\ UNCHANGED <<component, recognizer, geolocation, input, isListening, plan,
                      groundingLinks, location, locationName, history>>

\* a catch block that also drops the plan on screen
CatchClearsPlan(message) ==
  /\ error' = CatchMessage(component, message)
  /\ plan' = JSNull
  /\ groundingLinks' = <<>>
  /\ UNCHANGED history

\* the catch block: one message, nothing else written
Catch(message) ==
  /\ error' = CatchMessage(component, message)
  /\ UNCHANGED <<plan, groundingLinks, history>>

\* the history push without the mode test
HistoryAfterAnyMode(req, prev) == PushHistory(req.input, prev)

\* a history push that reads the text box when the response arrives
HistoryAfterCurrentInput(req, prev) ==
  IF ~req.isReroute THEN PushHistory(input, prev) ELSE prev

\* if (!isReroute) setHistory(prev => [input, ...prev].slice(0, 5))
HistoryAfter(req, prev) ==
  IF ~req.isReroute THEN PushHistory(req.input, prev) ELSE prev

\* a success path that appends the new links to the list on screen
CommitAppendsLinks(req, out) ==
  /\ plan' = out.plan
  /\ groundingLinks' = groundingLinks \o out.sources
  /\ history' = HistoryAfter(req, history)
  /\ error' = error

\* the end of the try block: setPlan, setGroundingLinks, setHistory
Commit(req, out) ==
  /\ plan' = out.plan
  /\ groundingLinks' = out.sources
  /\ history' = HistoryAfter(req, history)
  /\ error' = error

\* generatePlan without its finally block
FinallyKeepsBusy == isLoading' = isLoading

\* the finally block
Finally == isLoading' = FALSE

\* generatePlan when the client constructor or the call raises before the
\* await: catch and finally run in the same handler.
GeneratePlanThrows(isReroute, message) ==
  /\ ~GuardReturns(isReroute)
  /\ Catch(message)
  /\ Finally
  /\ UNCHANGED <<component, recognizer, geolocation, input, isListening, location,
                 locationName, inflight>>

\* The Generate button: disabled={isLoading || !input.trim()}
GenerateDisabled == isLoading \/ Trim(input) = <<>>
\* The Reroute button is rendered with the plan ({plan ? ...}) and is never
\* disabled.
RerouteRendered == ~Falsy(plan)
ButtonUsable(isReroute) == IF isReroute THEN RerouteRendered ELSE ~GenerateDisabled

\* A click on the Generate button (generatePlan()) or on the Reroute button
\* (generatePlan(true)).
Click(isReroute) == ButtonUsable(isReroute) /\ GeneratePlan(isReroute)
ClickThrows(isReroute, message) ==
  ButtonUsable(isReroute) /\ GeneratePlanThrows(isReroute, message)

\* generatePlan from the await on, for the i-th outstanding call and the
\* response resp its promise settled with: try, catch and finally.
Continue(i, resp) ==
  /\ inflight' = RemoveAt(inflight, i)
  /\ LET req == inflight[i]
         out == Outcome(component, resp)
     IN IF out.thrown THEN Catch(out.message) ELSE Commit(req, out)
  /\ Finally
  /\ UNCHANGED <<component, recognizer, geolocation, input, isListening, location,
                 locationName>>

\* the i-th outstanding call is still waiting at the await
Awaiting(i) == i \in 1..Len(inflight) /\ inflight[i].response = Pending

\* The service answers the i-th outstanding call and generatePlan resumes.
Settle(i, resp) ==
  /\ Awaiting(i)
  /\ Continue(i, resp)

\* The same in two steps: the promise of the i-th call settles with resp,
Deliver(i, resp) ==
  /\ Awaiting(i)
  /\ inflight' = [inflight EXCEPT ![i].response = resp]
  /\ UNCHANGED <<component, recognizer, geolocation, input, isListening, isLoading, plan,
                 groundingLinks, location, locationName, error, history>>

\* and generatePlan resumes with it.
Resume(i) ==
  /\ i \in 1..Len(inflight)
  /\ inflight[i].response # Pending
  /\ Continue(i, inflight[i].response)

\* ------------------------------------------------------------ environment
Q == Quote
\* {}
EmptyObjectText == <<"{", "}">>
\* {"stops":[]}
StopsObjectText == <<"{", Q, "stops", Q, ":", "[", "]", "}">>
\* {"stops":[1]}
OneStopObjectText == <<"{", Q, "stops", Q, ":", "[", "1", "]", "}">>

\* What the user types, what the recognizer hears, where the device is.
InputTexts == {<<>>, <<" ">>, <<"a">>}
VoiceTexts == {<<>>, <<"a">>}
Transcripts == {<<"a">>}
GeoCoords == {<<407128, -740060>>, <<0, 1000>>, <<514779, 0>>}
ThrowMessages == {"", "API key missing"}

\* The responses of the session specifications: a failure, prose without
\* an object, and two plans.
SessionResponses ==
  { ServiceFailure("503"),
    Response(<<"x">>, NoChunks),
    Response(StopsObjectText, NoChunks),
    Response(<<Fence, JsonTag, Blank>> \o OneStopObjectText \o <<Fence>>, OneChunk) }

VoiceResponses == {ServiceFailure("503"), Response(StopsObjectText, NoChunks)}

\* The chunks a response may carry: with title and uri, without a title,
\* without a uri, with an empty uri, without the maps field.
ChunkKinds ==
  { Chunk(TRUE, Str("Cafe"), Str("u1")),
    Chunk(TRUE, JSUndef, Str("u2")),
    Chunk(TRUE, Str("Cafe"), JSUndef),
    Chunk(TRUE, Str("Bank"), Str("")),
    Chunk(FALSE, JSUndef, JSUndef) }

SeqsUpTo(S, n) == UNION {[1..k -> S] : k \in 0..n}

ChunkLists == {NoChunks} \cup {ChunkList(items) : items \in SeqsUpTo(ChunkKinds, MaxChunks)}

\* The responses of SpecResponses: every failure kind, texts with one brace
\* missing, braces in the wrong order, and plans with every chunk list.
CuratedResponses ==
  { ServiceFailure("503"), ServiceFailure(""),
    Response(UndefinedText, NoChunks),
    Response(<<"x">>, OneChunk),
    Response(<<"1", "{">>, OneChunk),
    Response(<<"null", Blank, "{">>, NoChunks),
    Response(<<"x", "}">>, NoChunks),
    Response(<<"{", "x", "}">>, OneChunk),
    Response(<<"}", "1", "{">>, NoChunks),
    Response(<<"x", Blank, Fence, JsonTag, Blank>> \o OneStopObjectText \o <<Blank, Fence>>,
             NoChunks) }
  \cup {Response(StopsObjectText, chunks) : chunks \in ChunkLists}

\* The texts of SpecParser: every short text over ParserTokens, and every
\* object of ObjectTexts between prose, with and without fences.
ParserTokens == {"{", "}", "1", "null", Blank, "x", Quote, Fence}
ShortTexts == SeqsUpTo(ParserTokens, MaxTextLen)

\* {"x":{}, "stops":[1,null]}
NestedObjectText ==
  <<"{", Q, "x", Q, ":", "{", "}", ",", Blank, Q, "stops", Q, ":", "[", "1", ",", "null", "]", "}">>
\* {"x":"}"}
BraceStringObjectText == <<"{", Q, "x", Q, ":", Q, "}", Q, "}">>
\* {"x":"```"}
FenceStringObjectText == <<"{", Q, "x", Q, ":", Q, Fence, Q, "}">>

ObjectTexts ==
  { EmptyObjectText,
    <<"{", Blank, "}">>,
    StopsObjectText,
    NestedObjectText,
    BraceStringObjectText,
    FenceStringObjectText }
ProseTexts ==
  { <<>>, <<"x", Blank>>, <<Blank, "1">>, <<"}", Blank>>, <<Blank, "{">>,
    <<"x", "{", "x", "}", Blank>> }
FenceOpens == {<<>>, <<Fence, JsonTag, Blank>>, <<Fence, Blank>>}
FenceCloses == {<<>>, <<Blank, Fence>>}

\* an object between prose, possibly fenced
Wrap(before, open, object, close, after) == before \o open \o object \o close \o after
WrappedTexts ==
  { Wrap(before, open, object, close, after) :
      before \in ProseTexts, open \in FenceOpens, object \in ObjectTexts,
      close \in FenceCloses, after \in ProseTexts }

\* ------------------------------------------------------------ specifications
\* Spec: a session on a platform with neither speech recognition nor
\* geolocation; the user edits, recalls, toggles the microphone and clicks
\* the two buttons; calls overlap.
Init == InitOn({"absent"}, {"absent"})

Next ==
  \/ \E v \in InputTexts : EditInput(v)
  \/ \E i \in 1..HistoryCap : RecallHistory(i)
  \/ \E startThrows \in BOOLEAN : ToggleListening(startThrows)
  \/ \E isReroute \in BOOLEAN : Click(isReroute)
  \/ \E isReroute \in BOOLEAN, m \in ThrowMessages : ClickThrows(isReroute, m)
  \/ \E i \in 1..MaxInFlight, resp \in SessionResponses : Settle(i, resp)

Spec == Init /\ [][Next]_vars

\* SpecHandler: the same session with generatePlan called in either mode
\* whatever the buttons show.
NextHandler ==
  \/ \E v \in InputTexts : EditInput(v)
  \/ \E i \in 1..HistoryCap : RecallHistory(i)
  \/ \E startThrows \in BOOLEAN : ToggleListening(startThrows)
  \/ \E isReroute \in BOOLEAN : GeneratePlan(isReroute)
  \/ \E isReroute \in BOOLEAN, m \in ThrowMessages : GeneratePlanThrows(isReroute, m)
  \/ \E i \in 1..MaxInFlight, resp \in SessionResponses : Settle(i, resp)

SpecHandler == Init /\ [][NextHandler]_vars

\* SpecVoice: a session on a platform with speech recognition; text edits,
\* dictation, generations and reroutes, calls overlap.
InitVoice == InitOn({"idle"}, {"absent"})

NextVoice ==
  \/ \E v \in VoiceTexts : EditInput(v)
  \/ ~isListening /\ ToggleListening(FALSE)
  \/ \E t \in Transcripts : OnResult(t)
  \/ OnEnd
  \/ \E isReroute \in BOOLEAN : Click(isReroute)
  \/ \E i \in 1..MaxInFlight, resp \in VoiceResponses : Settle(i, resp)

SpecVoice == InitVoice /\ [][NextVoice]_vars

\* SpecCapture: the voice capture on a platform with speech recognition:
\* toggles, results, errors and ends of the recognizer, and text typed in
\* between.
CaptureTexts == {<<>>, <<" ">>, <<"a">>, <<"b">>}

NextCapture ==
  \/ \E v \in CaptureTexts : EditInput(v)
  \/ \E startThrows \in BOOLEAN : ToggleListening(startThrows)
  \/ \E t \in Transcripts : OnResult(t)
  \/ OnError
  \/ OnEnd

SpecCapture == InitVoice /\ [][NextCapture]_vars

\* SpecGeo: a session on a platform with geolocation: the position request
\* of the mount effect is answered or fails at any moment of a session of
\* edits, generations and reroutes.
InitGeo == InitOn({"absent"}, {"pending"})

NextGeo ==
  \/ \E v \in VoiceTexts : EditInput(v)
  \/ \E coords \in GeoCoords : GeoSuccess(coords)
  \/ GeoError
  \/ \E isReroute \in BOOLEAN : Click(isReroute)
  \/ \E i \in 1..MaxInFlight, resp \in VoiceResponses : Settle(i, resp)

SpecGeo == InitGeo /\ [][NextGeo]_vars

\* SpecInFlight: a session on a platform with speech recognition in which
\* the text box changes while calls are outstanding: typed edits, recalled
\* history entries and dictated transcripts, between clicks and answers.
NextInFlight ==
  \/ \E v \in VoiceTexts : EditInput(v)
  \/ \E i \in 1..HistoryCap : RecallHistory(i)
  \/ ~isListening /\ ToggleListening(FALSE)
  \/ \E t \in Transcripts : OnResult(t)
  \/ OnEnd
  \/ Len(history) <= MaxRequests /\ Click(FALSE)
  \/ Click(TRUE)
  \/ \E i \in 1..MaxInFlight : Settle(i, Response(StopsObjectText, NoChunks))

SpecInFlight == InitVoice /\ [][NextInFlight]_vars

\* SpecHistory: the user submits the texts "a", "aa", "aaa", ... one after
\* another, each after the one before it has reached the history, and
\* waits for every response; reroutes and failures happen in between.
ScenarioText(k) == [j \in 1..k |-> "a"]
\* how many texts the scenario has submitted so far
Submitted == IF history = <<>> THEN 0 ELSE Len(history[1])

NextHistory ==
  \/ Submitted < MaxGenerations /\ EditInput(ScenarioText(Submitted + 1))
  \/ inflight = <<>> /\ Len(input) = Submitted + 1 /\ Click(FALSE)
  \/ inflight = <<>> /\ Click(TRUE)
  \/ \E resp \in SessionResponses : Settle(1, resp)

SpecHistory == Init /\ [][NextHistory]_vars

\* SpecOrder: the user makes every request with a longer text than any
\* request before it ("a", "aa", ...), by either button, also while calls
\* are outstanding; the service answers a request whose text has n
\* characters with a plan of n stops and n citations, and the answers arrive
\* in any order.
RECURSIVE StopElements(_)
StopElements(n) == IF n <= 1 THEN <<"1">> ELSE <<"1", ",">> \o StopElements(n - 1)

\* {"stops":[1,...,1]} with n stops
PlanTextFor(n) ==
  IF n = 0 THEN StopsObjectText
  ELSE <<"{", Q, "stops", Q, ":", "[">> \o StopElements(n) \o <<"]", "}">>

\* how many stops the plan on screen has
StopsOf(p) == Cardinality({k \in 1..Len(p) : p[k] = "1"})

AnswerTo(req) ==
  Response(PlanTextFor(Len(req.input)),
           ChunkList([k \in 1..Len(req.input) |-> Chunk(TRUE, Str("Cafe"), Str("u1"))]))

\* the text in the box is longer than the text of every request so far
FreshText ==
  /\ Len(input) > StopsOf(plan)
  /\ \A k \in 1..Len(inflight) : Len(input) > Len(inflight[k].input)

NextOrder ==
  \/ Len(input) < MaxGenerations /\ EditInput(ScenarioText(Len(input) + 1))
  \/ \E isReroute \in BOOLEAN : FreshText /\ Click(isReroute)
  \/ \E i \in 1..MaxInFlight : Awaiting(i) /\ Settle(i, AnswerTo(inflight[i]))

SpecOrder == Init /\ [][NextOrder]_vars

\* SpecResponses: the user types "a", clicks the buttons and waits for
\* every response; the service answers with any of CuratedResponses, and
\* the answer is held until generatePlan resumes.
NextResponses ==
  \/ EditInput(<<"a">>)
  \/ inflight = <<>> /\ Len(history) < MaxRequests /\ Click(FALSE)
  \/ inflight = <<>> /\ Click(TRUE)
  \/ \E isReroute \in BOOLEAN, m \in ThrowMessages : ClickThrows(isReroute, m)
  \/ Awaiting(1) /\ \E resp \in CuratedResponses : Deliver(1, resp)
  \/ Resume(1)

SpecResponses == Init /\ [][NextResponses]_vars

ParserTexts == ShortTexts \cup WrappedTexts

\* SpecParser: the parser of each component applied to every text of
\* ShortTexts and WrappedTexts; the user types "a", clicks the buttons and
\* waits for every response, and the answer is held until generatePlan
\* resumes.
NextParser ==
  \/ EditInput(<<"a">>)
  \/ inflight = <<>> /\ Len(history) < MaxRequests /\ Click(FALSE)
  \/ inflight = <<>> /\ Click(TRUE)
  \/ \E isReroute \in BOOLEAN, m \in ThrowMessages : ClickThrows(isReroute, m)
  \/ Awaiting(1) /\ \E m \in ThrowMessages : Deliver(1, ServiceFailure(m))
  \/ Awaiting(1) /\ \E text \in ParserTexts : Deliver(1, Response(text, NoChunks))
  \/ Resume(1)

SpecParser == Init /\ [][NextParser]_vars

\* ------------------------------------------------------------ properties
Range(s) == {s[k] : k \in 1..Len(s)}
\* empty or whitespace-only
IsBlank(t) == \A k \in 1..Len(t) : t[k] = Blank
\* the response generatePlan is about to resume with
Delivered == inflight[1].response

\* C1: after any sequence of text edits, voice events, generations and
\* reroutes, overlapping ones included, the request history holds at most 5
\* entries, in both components.
HistoryAtMostFive == Len(history) <= 5

\* a full history holding a dictated request, two calls outstanding
HistoryFullTwoOutstanding ==
  /\ Len(history) = 5
  /\ <<"a", ",", " ", "a">> \in Range(history)
  /\ Len(inflight) = 2

\* C2: a successful non-reroute generation puts its request text at the head
\* of the history, keeps the previous entries in order behind it and drops
\* only what would fall at position 6; so after the texts "a", "aa", ... are
\* generated one after another the history is the last 5 of them, most
\* recent first.
HistoryMostRecentFirst ==
  /\ [](history = [j \in 1..(IF Submitted < 5 THEN Submitted ELSE 5) |->
                     ScenarioText(Submitted - j + 1)])
  /\ [][(\E resp \in SessionResponses :
           /\ inflight # <<>>
           /\ ~inflight[1].isReroute
           /\ ~Outcome(component, resp).thrown
           /\ Settle(1, resp))
        => /\ Len(history') = (IF Len(history) < 5 THEN Len(history) + 1 ELSE 5)
           /\ history'[1] = inflight[1].input
           /\ \A k \in 2..Len(history') : history'[k] = history[k - 1]]_vars

\* six generations done: the first text is gone
SixthGenerationEvictsFirst ==
  /\ history = <<ScenarioText(6), ScenarioText(5), ScenarioText(4), ScenarioText(3),
                 ScenarioText(2)>>
  /\ inflight = <<>>

\* C3: a reroute leaves the request history unchanged at its start, when it
\* fails before or after the service call, and when it succeeds, whatever
\* the input text is.
RerouteKeepsHistory ==
  [][(\/ GeneratePlan(TRUE)
      \/ \E m \in ThrowMessages : GeneratePlanThrows(TRUE, m)
      \/ \E i \in 1..Len(inflight), resp \in SessionResponses :
           inflight[i].isReroute /\ Settle(i, resp))
     => history' = history]_vars

\* a reroute with input "a" has produced the plan on screen, the history
\* is still empty
RerouteSucceededHistoryKept ==
  /\ plan = JSONParse(OneStopObjectText).val
  /\ history = <<>>
  /\ input = <<"a">>
  /\ inflight = <<>>

BusyClearedOnEveryExit ==
  /\ [](inflight = <<>> => ~isLoading)
  /\ [][(\/ \E i \in 1..Len(inflight), resp \in SessionResponses : Settle(i, resp)
         \/ \E isReroute \in BOOLEAN, m \in ThrowMessages :
              GeneratePlanThrows(isReroute, m))
        => ~isLoading']_vars

\* a failed generation behind it, nothing outstanding, the indicator off
IdleAfterFailure ==
  /\ ~isLoading
  /\ inflight = <<>>
  /\ error \in {"503", InterruptedOptimizer}
  /\ history # <<>>

\* C6: an initial generation invoked while the input is empty or
\* whitespace-only sends nothing and keeps plan, grounding links, history,
\* error message and busy indicator.
BlankGenerationIsNoOp ==
  [][(IsBlank(input) /\ GeneratePlan(FALSE))
     => UNCHANGED <<plan, groundingLinks, history, error, isLoading, inflight>>]_vars

\* a whitespace-only input with a plan, a history and an error on screen
BlankInputWithSessionState ==
  /\ input = <<" ">>
  /\ plan # JSNull
  /\ history # <<>>
  /\ error # NoError

\* C7: for every response text in which "{" is absent or "}" is absent the
\* generation ends with an error message set and the held plan unchanged, in
\* both components.
MissingBraceFails ==
  [][(/\ inflight # <<>>
      /\ Delivered.ok
      /\ Delivered.text # UndefinedText
      /\ ("{" \notin Range(Delivered.text) \/ "}" \notin Range(Delivered.text))
      /\ Resume(1))
     => error' # NoError /\ plan' = plan]_vars

\* C8 as stated: whatever the prose around it and whatever the object, the
\* value decoded from an object between prose and fences is that object.
WrappedAround ==
  [object \in ObjectTexts |->
     { Wrap(before, open, object, close, after) :
         before \in ProseTexts, open \in FenceOpens, close \in FenceCloses,
         after \in ProseTexts }]

ExtractsEveryWrappedObject ==
  [][\A object \in ObjectTexts :
       (/\ inflight # <<>>
        /\ Delivered.ok
        /\ Delivered.text \in WrappedAround[object]
        /\ Resume(1))
       => plan' = JSONParse(object).val]_vars

\* C8 amended: when the prose before the object holds no "{", the prose
\* after it holds no "}" and, in ErrandOS, the object holds no fence, the
\* value decoded is that object.
CleanWrappedAround ==
  [object \in ObjectTexts |->
     { Wrap(before, open, object, close, after) :
         before \in {p \in ProseTexts : "{" \notin Range(p)},
         open \in FenceOpens, close \in FenceCloses,
         after \in {p \in ProseTexts : "}" \notin Range(p)} }]

ExtractsCleanlyWrappedObject ==
  [][\A object \in ObjectTexts :
       (/\ inflight # <<>>
        /\ Delivered.ok
        /\ Delivered.text \in CleanWrappedAround[object]
        /\ (component = "ErrandOS" => Fence \notin Range(object))
        /\ Resume(1))
       => plan' = JSONParse(object).val]_vars

\* the plan on screen was decoded from an object between prose or fences,
\* and a fenced object between prose is about to be decoded
FencedObjectBetweenProse ==
  /\ plan = JSONParse(StopsObjectText).val
  /\ inflight # <<>>
  /\ Delivered.text = Wrap(<<"x", Blank>>, <<Fence, JsonTag, Blank>>, NestedObjectText,
                           <<Blank, Fence>>, <<Blank, "1">>)

\* C9: on a successful generation an entry without a URI gives no grounding
\* link, and an entry with a URI gives a link with that URI, under its own
\* title or, if it has none, under a placeholder; entry by entry, in both
\* components.
LinkPerEntryWithUri ==
  [][(/\ inflight # <<>>
      /\ Delivered.ok
      /\ Delivered.chunks.isArray
      /\ ~Outcome(component, Delivered).thrown
      /\ Resume(1))
     => LET withUri == SelectSeq(Delivered.chunks.items,
                         LAMBDA c : c.maps /\ c.uri[1] = "str" /\ c.uri[2] # "")
        IN /\ Len(groundingLinks') = Len(withUri)
           /\ \A k \in 1..Len(withUri) :
                /\ groundingLinks'[k].uri = withUri[k].uri[2]
                /\ IF withUri[k].title[1] = "str"
                   THEN groundingLinks'[k].title = withUri[k].title[2]
                   ELSE groundingLinks'[k].title # ""]_vars

\* C10: without a recognizer, isListening is false after every toggle.
NoRecognizerStaysIdle == recognizer = "absent" => ~isListening

\* C11: one recognizer holds at most one capture, and isListening is true
\* exactly while a capture runs; a toggle issued while listening stops the
\* capture, leaves isListening false and makes no call of start (no capture
\* begins, no start error is set); a capture begins only in a toggle step
\* taken while not listening, with the recognizer idle.
OneCaptureToggleStops ==
  [][/\ isListening' <=> recognizer' = "active"
     /\ (isListening /\ \E startThrows \in BOOLEAN : ToggleListening(startThrows))
          => /\ ~isListening'
             /\ recognizer' = "stopping"
             /\ error' = error
     /\ (recognizer # "active" /\ recognizer' = "active")
          => /\ ~isListening
             /\ recognizer = "idle"
             /\ ToggleListening(FALSE)]_vars

\* a toggle has stopped a running capture and typed text is in the box
CaptureStoppedByToggle ==
  /\ recognizer = "stopping"
  /\ ~isListening
  /\ input = <<"b">>

\* C12: a transcript that arrives is joined to the input text of that
\* moment, edits typed during the capture included: the text, ", " and the
\* transcript when the text is non-empty, the transcript alone otherwise;
\* isListening is false afterwards.
TranscriptJoinsCurrentText ==
  [][\A t \in Transcripts :
       OnResult(t) =>
         /\ input' = IF input = <<>> THEN t ELSE input \o <<",", " ">> \o t
         /\ ~isListening']_vars

\* a transcript has been appended to a typed text
TranscriptAfterTypedText ==
  /\ input = <<"b", ",", " ", "a">>
  /\ recognizer = "ending"
  /\ ~isListening

\* C13: when the position request fails the stored location becomes
\* (37.7749, -122.4194) and the label "San Francisco, CA"; when it succeeds
\* the stored location is the reported pair.
FallbackOrReportedLocation ==
  [][/\ GeoError =>
          /\ location' = <<377749, -1224194>>
          /\ locationName'.kind = "text"
          /\ locationName'.text = "San Francisco, CA"
     /\ \A coords \in GeoCoords : GeoSuccess(coords) => location' = coords]_vars

\* the position request has failed and a generation started afterwards
\* carries the fallback location
GenerationFromFallback ==
  /\ geolocation = "done"
  /\ location = <<377749, -1224194>>
  /\ Len(inflight) = 1
  /\ inflight[1].location = location

\* C14: a failed position request sets a user-visible message in the step
\* that stores the fallback location, in both components.
GeoFailureSetsAdvisory == [][GeoError => error' # NoError]_vars

\* C20: for every request made with a stored location, the latitude and
\* longitude of the location hint are the stored pair, and the pair written
\* into the prompt of that request denotes the same numbers.
HintEqualsStoredLocation ==
  \A k \in 1..Len(inflight) :
    LET req == inflight[k]
    IN req.location # <<>> =>
         /\ <<req.latLng.latitude, req.latLng.longitude>> = req.location
         /\ <<NumberOfText(req.origin[1]), NumberOfText(req.origin[2])>>
              = <<req.latLng.latitude, req.latLng.longitude>>

SuccessReplacesPlanAndLinks ==
  [][(/\ inflight # <<>>
      /\ Delivered.ok
      /\ ~Outcome(component, Delivered).thrown
      /\ Resume(1))
     => LET items == IF Delivered.chunks.isArray THEN Delivered.chunks.items ELSE <<>>
            used == SelectSeq(items, LAMBDA c : LinkOf(component, c) # <<>>)
        IN /\ plan' = IF component = "ErrandOS" THEN extractJSON(Delivered.text)
                      ELSE inlineParse(Delivered.text).val
           /\ Len(groundingLinks') = Len(used)
           /\ \A k \in 1..Len(used) : groundingLinks'[k].uri = used[k].uri[2]]_vars

\* ErrandOS holds the two links of one response, in the order of its metadata
TwoLinksInMetadataOrder ==
  /\ component = "ErrandOS"
  /\ inflight = <<>>
  /\ plan # JSNull
  /\ Len(groundingLinks) = 2
  /\ groundingLinks[1].uri = "u1"
  /\ groundingLinks[2].uri = "u2"

\* C17: once a plan is held, no step of a generation or reroute, whatever
\* the response, makes the plan absent again.
HeldPlanNeverAbsent == [][plan # JSNull => plan' # JSNull]_vars

\* C18: with the Generate and Reroute buttons as the only triggers, at most
\* one call of generatePlan is waiting for the service at any time.
OneRequestInFlight == Len(inflight) <= 1

\* C19: the answer to a request never replaces the plan and the links of a
\* request issued after it: when the plan on screen belongs to a later
\* request (a longer text) than the request whose answer arrives, plan and
\* links stay as they are.
LastRequestWins ==
  [][\A i \in 1..Len(inflight) :
       (/\ StopsOf(plan) > Len(inflight[i].input)
        /\ Settle(i, AnswerTo(inflight[i])))
       => /\ plan' = plan
          /\ groundingLinks' = groundingLinks]_vars

\* C21: the history changes only when a generation that is not a reroute
\* succeeds, and the text put at its head is the text that generation was
\* called with (the text of its prompt), whatever the text box holds when
\* the answer arrives.
HistoryGetsRequestText ==
  [][history' # history =>
       \E i \in 1..Len(inflight) :
         /\ inflight' = RemoveAt(inflight, i)
         /\ ~inflight[i].isReroute
         /\ history'[1] = inflight[i].input
         /\ Len(history') = IF Len(history) < 5 THEN Len(history) + 1 ELSE 5
         /\ \A k \in 2..Len(history') : history'[k] = history[k - 1]]_vars

\* the history holds the text "a" of a generation whose answer arrived
\* after a transcript had been appended to the text box
HistoryHeadIsNotTextBox ==
  /\ history = << <<"a">> >>
  /\ input = <<"a", ",", " ", "a">>
  /\ recognizer = "ending"
  /\ ~isLoading
  /\ inflight = <<>>

\* C22: every entry of the history is a text that is not empty after
\* trimming, in every reachable state.
HistoryEntriesNotBlank ==
  \A k \in 1..Len(history) : Trim(history[k]) # <<>>

\* a reroute called with a blank text box is outstanding while the history
\* holds an entry
BlankRerouteOutstanding ==
  /\ history # <<>>
  /\ inflight # <<>>
  /\ inflight[1].isReroute
  /\ inflight[1].input = <<" ">>

\* C23: while the service call of any generation is outstanding the busy
\* flag is true.
BusyWhileOutstanding == inflight # <<>> => isLoading

\* C24: every generation request is issued with a location stored, so the
\* coordinates written into its prompt are a pair of numbers.
PromptHasStoredLocation ==
  \A k \in 1..Len(inflight) :
    /\ inflight[k].location # <<>>
    /\ inflight[k].origin # <<UndefinedText, UndefinedText>>

\* plan.stops is an array: the decoded value is an object with a member
\* "stops", at the top level, whose value is an array.
NestingBefore(p, k) ==
  Cardinality({j \in 1..(k - 1) : p[j] \in {"{", "["}})
    - Cardinality({j \in 1..(k - 1) : p[j] \in {"}", "]"}})

HasStopsArray(p) ==
  /\ p # <<>>
  /\ p[1] = "{"
  /\ \E k \in 2..(Len(p) - 4) :
       /\ p[k] = Quote /\ p[k + 1] = "stops" /\ p[k + 2] = Quote
       /\ p[k + 3] = ":" /\ p[k + 4] = "["
       /\ NestingBefore(p, k) = 1

\* C25: whenever a plan is held it is an object with a stops sequence, so
\* that the view can iterate the stops and build the directions link.
HeldPlanHasStops == plan # JSNull => HasStopsArray(plan)
====
